---- MODULE Spec2Model ----
(***************************************************************************)
(* Token lifecycle and request retry of the Treolan proxy.                 *)
(*                                                                         *)
(* The repository holds four revisions of the same two functions,          *)
(* getToken and treolan:                                                   *)
(*   "index"    src/index.js            (five candidate login paths)       *)
(*   "part_000" src/unnamed/part_000    (one login path)                   *)
(*   "part_001" src/unnamed/part_001    (one login path)                   *)
(*   "part_002" src/unnamed/part_002    (four candidate login paths,       *)
(*                                       the second file of that part)     *)
(* The variable `variant` fixes which revision runs.                       *)
(*                                                                         *)
(* Strings are sequences of one-character strings.  Time is in minutes.    *)
(* One step of the model is one synchronous run of JavaScript between two  *)
(* awaits of network I/O.                                                  *)
(***************************************************************************)
EXTENDS Integers, Sequences, FiniteSets, TLC

(***************************************************************************)
(* Bounds of the model.                                                    *)
(***************************************************************************)
MaxTime == 66          \* the clock stops advancing here
MaxCount == 3          \* per-call request counters saturate here

TickStep == 11         \* granularity of the clock, in minutes
Procs == {1, 2}        \* concurrent HTTP requests served by the process

(***************************************************************************)
(* Program constants.                                                      *)
(***************************************************************************)
\* 55 * 60 * 1000 ms, in minutes
TTL == 55

Variants == {"index", "part_000", "part_001", "part_002"}

Min(a, b) == IF a < b THEN a ELSE b
Bump(n) == Min(n + 1, MaxCount)

(***************************************************************************)
(* JavaScript values that a token expression can evaluate to.              *)
(***************************************************************************)
Undefined == [t |-> "undefined", s |-> <<>>, n |-> 0]
Null == [t |-> "null", s |-> <<>>, n |-> 0]
Str(chars) == [t |-> "string", s |-> chars, n |-> 0]
Num(k) == [t |-> "number", s |-> <<>>, n |-> k]

\* ToBoolean: undefined, null, "" and 0 are falsy
Truthy(v) == \/ v.t = "string" /\ v.s # <<>>
             \/ v.t = "number" /\ v.n # 0

Rep(c, k) == [i \in 1..k |-> c]

(***************************************************************************)
(* Response bodies.  A body is either the JSON text of an object with the  *)
(* given fields, or raw text given character by character.                 *)
(***************************************************************************)
FieldNames == {"token", "accessToken", "access_token", "bearerToken", "jwt", "result"}

NoFields == [f \in FieldNames |-> Undefined]

ObjectBody(fields) == [kind |-> "object", fields |-> fields, chars |-> <<>>]
TextBody(chars) == [kind |-> "text", fields |-> NoFields, chars |-> chars]
NoBody == [kind |-> "none", fields |-> NoFields, chars |-> <<>>]

IsSpace(c) == c = " "

RECURSIVE TrimLeft(_)
TrimLeft(s) == IF s # <<>> /\ IsSpace(Head(s)) THEN TrimLeft(Tail(s)) ELSE s

RECURSIVE TrimRight(_)
TrimRight(s) ==
    IF s # <<>> /\ IsSpace(s[Len(s)]) THEN TrimRight(SubSeq(s, 1, Len(s) - 1)) ELSE s

\* String.prototype.trim
Trim(s) == TrimRight(TrimLeft(s))

\* .replace(/^"|"$/g, ''): drops one leading and one trailing double quote
StripQuotes(s) ==
    LET a == IF s # <<>> /\ Head(s) = "\"" THEN Tail(s) ELSE s
    IN  IF a # <<>> /\ a[Len(a)] = "\"" THEN SubSeq(a, 1, Len(a) - 1) ELSE a

\* the text is a JSON string literal: quotes around characters that need no escape
IsStringLiteral(s) ==
    /\ Len(s) >= 2
    /\ Head(s) = "\""
    /\ s[Len(s)] = "\""
    /\ \A i \in 2..(Len(s) - 1) : s[i] # "\"" /\ s[i] # "\\"

\* JSON.parse over the bodies of the model: an object text gives the object, a
\* string literal gives the string, null gives null, any other text of letters
\* and spaces is a SyntaxError.
JSONparse(body) ==
    IF body.kind = "object"
    THEN [ok |-> TRUE, t |-> "object", fields |-> body.fields, s |-> <<>>]
    ELSE LET txt == Trim(body.chars)
         IN  IF body.kind = "text" /\ IsStringLiteral(txt)
             THEN [ok |-> TRUE, t |-> "string", fields |-> NoFields,
                   s |-> SubSeq(txt, 2, Len(txt) - 1)]
             ELSE IF body.kind = "text" /\ txt = <<"n", "u", "l", "l">>
             THEN [ok |-> TRUE, t |-> "null", fields |-> NoFields, s |-> <<>>]
             ELSE [ok |-> FALSE, t |-> "undefined", fields |-> NoFields, s |-> <<>>]

\* a || b || ... : the first truthy operand, else the last operand
RECURSIVE OrChain(_)
OrChain(vals) ==
    IF Len(vals) = 1 \/ Truthy(Head(vals)) THEN Head(vals) ELSE OrChain(Tail(vals))

\* data.<name> for parsed data that is not null (a string has none of the fields)
Field(data, name) == IF data.t = "object" THEN data.fields[name] ELSE Undefined

\* (typeof data === 'string' ? data : null)
BareString(data) == IF data.t = "string" THEN Str(data.s) ELSE Null

(***************************************************************************)
(* State.                                                                  *)
(***************************************************************************)
VARIABLES
    variant,       \* which revision of the file runs
    LOGIN,         \* process.env.TREOLAN_LOGIN || ''
    PASSWORD,      \* process.env.TREOLAN_PASSWORD || ''
    now,           \* Date.now(), in minutes
    cachedToken,   \* let cachedToken = null
    tokenExpires,  \* let tokenExpires = 0
    calls          \* per served request: where its handler stands

vars == <<variant, LOGIN, PASSWORD, now, cachedToken, tokenExpires, calls>>

Routes == {"/api/auth-check", "/api/catalog", "/api/product"}

\* the candidate login paths of a revision, in the order they are tried
AuthUrls(v) ==
    CASE v = "index" ->
           <<"/Auth/GetToken", "/Auth/Login", "/Auth/Token", "/Account/GetToken",
             "/Account/Login">>
      [] v = "part_002" ->
           <<"/Auth/GetToken", "/Auth/Login", "/Auth/Token", "/Account/Login">>
      [] OTHER -> <<"/auth/token">>

\* the revisions that test LOGIN and PASSWORD before logging in
ChecksCredentials(v) == v \in {"index", "part_000", "part_001"}

\* !LOGIN || !PASSWORD
CredentialsMissing == LOGIN = "" \/ PASSWORD = ""

\* res.ok
Ok(status) == status >= 200 /\ status <= 299

(***************************************************************************)
(* Token recognition.                                                      *)
(***************************************************************************)
\* the operands of the || chain that picks the token out of parsed data
TokenOperands(v, data) ==
    CASE v \in {"index", "part_001"} ->
           <<Field(data, "token"), Field(data, "accessToken"),
             Field(data, "access_token"), Field(data, "bearerToken"),
             Field(data, "jwt"), Field(data, "result"), BareString(data)>>
      [] v = "part_000" ->
           <<Field(data, "token"), Field(data, "accessToken"),
             Field(data, "access_token"), Field(data, "result")>>
      [] OTHER ->
           <<Field(data, "token"), Field(data, "accessToken"),
             Field(data, "access_token"), Field(data, "bearerToken"),
             Field(data, "jwt"), Field(data, "result")>>

\* What the text of a success-status login response yields: a token value, a
\* SyntaxError of JSON.parse that the revision does not turn into a token, or
\* the TypeError of reading a property of null.
ReadToken(v, body) ==
    LET data == JSONparse(body)
        plain == Str(StripQuotes(Trim(body.chars)))
    IN  IF v \in {"part_000", "part_001"}
        THEN IF data.ok /\ data.t # "null"
             THEN [how |-> "token", token |-> OrChain(TokenOperands(v, data))]
             ELSE [how |-> "token", token |-> plain]
        ELSE IF ~data.ok THEN [how |-> "SyntaxError", token |-> Undefined]
        ELSE IF data.t = "null" THEN [how |-> "TypeError", token |-> Undefined]
        ELSE [how |-> "token", token |-> OrChain(TokenOperands(v, data))]

\* token.length < 10, which is false when token has no length
LengthBelow10(token) == token.t = "string" /\ Len(token.s) < 10

\* the test that guards the write of cachedToken
AcceptToken(v, token) ==
    CASE v = "index" -> Truthy(token) /\ token.t = "string" /\ Len(token.s) > 10
      [] v \in {"part_000", "part_001"} -> ~(~Truthy(token) \/ LengthBelow10(token))
      [] OTHER -> Truthy(token) /\ token.t = "string"

(***************************************************************************)
(* Errors and responses of the route handlers.                             *)
(***************************************************************************)
NoLastError == [path |-> "", status |-> 0, message |-> ""]

Error(kind, status, body, last) ==
    [kind |-> kind, status |-> status, body |-> body, last |-> last]

NoError == Error("none", 0, NoBody, NoLastError)

\* the status a handler's catch block answers with
CatchStatus(route) ==
    CASE route = "/api/auth-check" -> 401
      [] route = "/api/catalog" -> 500
      [] OTHER -> 404

Response(status, body) == [exc |-> FALSE, status |-> status, body |-> body]

\* fetch rejects
FetchFailed == [exc |-> TRUE, status |-> 0, body |-> NoBody]

\* no response received yet
NoResponse == Response(0, NoBody)

\* the locals of one handler invocation: the route served (op), the await it
\* stands at (pc), path (pathIdx) and lastError of getToken's loop, token and
\* res of getToken or treolan, what the handler caught (error) and answered
\* (http); nApi, nAuth and n401 count the upstream requests and login requests
\* sent and the 401 answers received; src tells where token came from; prevOk
\* tells that the invocation served before this one was a treolan call that
\* succeeded without a 401
IdleCall ==
    [pc |-> "idle", op |-> "/api/auth-check", pathIdx |-> 0, token |-> Undefined,
     res |-> NoResponse, lastError |-> NoLastError, error |-> NoError, http |-> 0,
     nApi |-> 0, nAuth |-> 0, n401 |-> 0, src |-> "none", prevOk |-> FALSE]

\* mutant: the handler has no catch block, the exception leaves it unanswered
ThrowEscapes(c, err) ==
    [c EXCEPT !.error = err]

\* an exception reaches the handler's catch block, which answers the request
Throw(c, err) ==
    [c EXCEPT !.pc = "done", !.error = err, !.http = CatchStatus(c.op)]

\* mutant: treolan sends whatever the cache holds before getToken returns
ReturnTokenFromCache(c, tok) ==
    IF c.op = "/api/auth-check"
    THEN [c EXCEPT !.pc = "done", !.token = tok, !.http = 200]
    ELSE [c EXCEPT !.pc = "awaitApi", !.token = cachedToken, !.nApi = Bump(@)]

\* getToken has returned tok to the code awaiting it: the auth-check handler
\* answers, treolan sends the upstream request with the token as bearer
ReturnToken(c, tok) ==
    IF c.op = "/api/auth-check"
    THEN [c EXCEPT !.pc = "done", !.token = tok, !.http = 200]
    ELSE [c EXCEPT !.pc = "awaitApi", !.token = tok, !.nApi = Bump(@)]

(***************************************************************************)
(* getToken.                                                               *)
(***************************************************************************)
\* mutant: the comparison of the clock with the expiry is the wrong way round
CacheHitReversed(ct, te, t) == Truthy(ct) /\ t > te

\* mutant: a token is still served at the instant it expires
CacheHitInclusive(ct, te, t) == Truthy(ct) /\ t <= te

\* cachedToken && Date.now() < tokenExpires
CacheHit(ct, te, t) == Truthy(ct) /\ t < te

\* mutant: getToken never looks at the cache
getTokenNoCache(c, ct, te, t) ==
    IF ChecksCredentials(variant) /\ CredentialsMissing
    THEN Throw(c, Error("config", 0, NoBody, NoLastError))
    ELSE [c EXCEPT !.pc = "awaitLogin", !.pathIdx = 1, !.lastError = NoLastError,
                   !.nAuth = Bump(@)]

\* getToken from its entry to its first await (or its return or throw), run
\* against the cache (ct, te) at time t
getToken(c, ct, te, t) ==
    IF CacheHit(ct, te, t)
    THEN ReturnToken([c EXCEPT !.src = "cache"], ct)
    ELSE IF ChecksCredentials(variant) /\ CredentialsMissing
    THEN Throw(c, Error("config", 0, NoBody, NoLastError))
    ELSE [c EXCEPT !.pc = "awaitLogin", !.pathIdx = 1, !.lastError = NoLastError,
                   !.nAuth = Bump(@)]

\* mutant: an exception of fetch ends the loop instead of moving on
NextPathAborts(c, last) ==
    IF c.pathIdx < Len(AuthUrls(variant)) /\ last.message = ""
    THEN [c EXCEPT !.pathIdx = @ + 1, !.lastError = last, !.nAuth = Bump(@)]
    ELSE Throw([c EXCEPT !.lastError = last], Error("login", 0, NoBody, last))

\* the loop of the multi-path revisions moves to the next candidate, or ends
NextPath(c, last) ==
    IF c.pathIdx < Len(AuthUrls(variant))
    THEN [c EXCEPT !.pathIdx = @ + 1, !.lastError = last, !.nAuth = Bump(@)]
    ELSE Throw([c EXCEPT !.lastError = last], Error("login", 0, NoBody, last))

\* lastError = `${path} -> ${res.status}` or `${path} -> ${e.message}`; the
\* part_002 revision keeps no lastError
Last(c, status, message) ==
    IF variant = "index"
    THEN [path |-> AuthUrls(variant)[c.pathIdx], status |-> status, message |-> message]
    ELSE NoLastError

\* mutant: a login that finds a valid token stored meanwhile returns that one
\* and drops its own
getTokenResumeFirstWins(c0, r, t) ==
    LET c == [c0 EXCEPT !.res = r]
        read == ReadToken(variant, r.body)
        keep(c2) == [call |-> c2, wrote |-> FALSE, token |-> Undefined]
        store(tok) == IF CacheHit(cachedToken, tokenExpires, t)
                      THEN keep(ReturnToken([c EXCEPT !.src = "login"], cachedToken))
                      ELSE [call |-> ReturnToken([c EXCEPT !.src = "login"], tok),
                            wrote |-> TRUE, token |-> tok]
    IN  IF variant \in {"part_000", "part_001"}
        THEN IF r.exc THEN keep(Throw(c, Error("fetch", 0, NoBody, NoLastError)))
             ELSE IF ~Ok(r.status)
             THEN keep(Throw(c, Error("auth", r.status, r.body, NoLastError)))
             ELSE IF AcceptToken(variant, read.token) THEN store(read.token)
             ELSE keep(Throw(c, Error("notoken", 0, r.body, NoLastError)))
        ELSE IF r.exc THEN keep(NextPath(c, Last(c, 0, "fetch failed")))
             ELSE IF ~Ok(r.status) THEN keep(NextPath(c, Last(c, r.status, "")))
             ELSE IF read.how = "SyntaxError"
             THEN keep(NextPath(c, IF variant = "index" THEN c.lastError
                                                      ELSE NoLastError))
             ELSE IF read.how = "TypeError"
             THEN keep(NextPath(c, Last(c, 0, "TypeError")))
             ELSE IF AcceptToken(variant, read.token) THEN store(read.token)
             ELSE keep(NextPath(c, Last(c, r.status, "")))

\* getToken resumed by the answer r to its login request at time t.  Gives the
\* call afterwards and whether (and what) it wrote to the cache.
getTokenResume(c0, r, t) ==
    LET c == [c0 EXCEPT !.res = r]
        read == ReadToken(variant, r.body)
        keep(c2) == [call |-> c2, wrote |-> FALSE, token |-> Undefined]
        store(tok) == [call |-> ReturnToken([c EXCEPT !.src = "login"], tok),
                       wrote |-> TRUE, token |-> tok]
    IN  IF variant \in {"part_000", "part_001"}
        THEN IF r.exc THEN keep(Throw(c, Error("fetch", 0, NoBody, NoLastError)))
             ELSE IF ~Ok(r.status)
             THEN keep(Throw(c, Error("auth", r.status, r.body, NoLastError)))
             ELSE IF AcceptToken(variant, read.token) THEN store(read.token)
             ELSE keep(Throw(c, Error("notoken", 0, r.body, NoLastError)))
        ELSE IF r.exc THEN keep(NextPath(c, Last(c, 0, "fetch failed")))
             ELSE IF ~Ok(r.status) THEN keep(NextPath(c, Last(c, r.status, "")))
             ELSE IF read.how = "SyntaxError"
             THEN keep(NextPath(c, IF variant = "index" THEN c.lastError
                                                      ELSE NoLastError))
             ELSE IF read.how = "TypeError"
             THEN keep(NextPath(c, Last(c, 0, "TypeError")))
             ELSE IF AcceptToken(variant, read.token) THEN store(read.token)
             ELSE keep(NextPath(c, Last(c, r.status, "")))

(***************************************************************************)
(* treolan.                                                                *)
(***************************************************************************)
\* mutant: every non-success status, not only 401, clears the cache and retries
treolanResumeRetryAll(c0, r, t) ==
    LET c == [c0 EXCEPT !.res = r]
    IN
    IF r.exc
    THEN [call |-> Throw(c, Error("fetch", 0, NoBody, NoLastError)), cleared |-> FALSE]
    ELSE IF ~Ok(r.status)
    THEN [call |-> getToken([c EXCEPT !.n401 = Bump(@)], Null, 0, t), cleared |-> TRUE]
    ELSE IF ~JSONparse(r.body).ok
    THEN [call |-> Throw(c, Error("decode", r.status, NoBody, NoLastError)),
          cleared |-> FALSE]
    ELSE [call |-> [c EXCEPT !.pc = "done", !.http = 200], cleared |-> FALSE]

\* mutant: a 401 clears the cache only while it still holds the rejected token
treolanResumeClearsOwn(c0, r, t) ==
    LET c == [c0 EXCEPT !.res = r]
    IN
    IF r.exc
    THEN [call |-> Throw(c, Error("fetch", 0, NoBody, NoLastError)), cleared |-> FALSE]
    ELSE IF r.status = 401
    THEN IF cachedToken = c.token
         THEN [call |-> getToken([c EXCEPT !.n401 = Bump(@)], Null, 0, t),
               cleared |-> TRUE]
         ELSE [call |-> getToken([c EXCEPT !.n401 = Bump(@)], cachedToken,
                                 tokenExpires, t),
               cleared |-> FALSE]
    ELSE IF ~Ok(r.status)
    THEN [call |-> Throw(c, Error("upstream", r.status, r.body, NoLastError)),
          cleared |-> FALSE]
    ELSE IF ~JSONparse(r.body).ok
    THEN [call |-> Throw(c, Error("decode", r.status, NoBody, NoLastError)),
          cleared |-> FALSE]
    ELSE [call |-> [c EXCEPT !.pc = "done", !.http = 200], cleared |-> FALSE]

\* treolan resumed by the answer r to its upstream request at time t.  On 401
\* it clears the cache and calls itself, which runs getToken against the
\* cleared cache before anything else can run.
treolanResume(c0, r, t) ==
    LET c == [c0 EXCEPT !.res = r]
    IN
    IF r.exc
    THEN [call |-> Throw(c, Error("fetch", 0, NoBody, NoLastError)), cleared |-> FALSE]
    ELSE IF r.status = 401
    THEN [call |-> getToken([c EXCEPT !.n401 = Bump(@)], Null, 0, t), cleared |-> TRUE]
    ELSE IF ~Ok(r.status)
    THEN [call |-> Throw(c, Error("upstream", r.status, r.body, NoLastError)),
          cleared |-> FALSE]
    ELSE IF ~JSONparse(r.body).ok
    THEN [call |-> Throw(c, Error("decode", r.status, NoBody, NoLastError)),
          cleared |-> FALSE]
    ELSE [call |-> [c EXCEPT !.pc = "done", !.http = 200], cleared |-> FALSE]

(***************************************************************************)
(* What the upstream may answer.                                           *)
(***************************************************************************)
LoginBodies ==
    { ObjectBody([NoFields EXCEPT !["access_token"] = Str(Rep("a", 10))]),
      ObjectBody([NoFields EXCEPT !["access_token"] = Str(Rep("a", 9))]),
      ObjectBody([NoFields EXCEPT !["token"] = Str(Rep("b", 11))]),
      ObjectBody([NoFields EXCEPT !["token"] = Str(Rep("a", 2))]),
      ObjectBody([NoFields EXCEPT !["token"] = Str(Rep("a", 2)),
                                  !["result"] = Str(Rep("b", 11))]),
      ObjectBody([NoFields EXCEPT !["result"] = Num(7)]),
      ObjectBody(NoFields),
      TextBody(<<"\"">> \o Rep("c", 14) \o <<"\"">>),
      TextBody(<<" ">> \o Rep("d", 12) \o <<" ">>),
      TextBody(<<"n", "u", "l", "l">>) }

LoginResponses ==
    {Response(200, b) : b \in LoginBodies}
        \cup {Response(403, TextBody(<<"n", "o">>)), FetchFailed}

ApiResponses ==
    {Response(st, b) : st \in {200, 401, 500},
                       b \in {ObjectBody(NoFields), TextBody(<<"o", "o", "p", "s">>)}}
        \cup {FetchFailed}

(***************************************************************************)
(* Actions.                                                                *)
(***************************************************************************)
Init ==
    /\ variant \in Variants
    /\ LOGIN \in {"", "login"}
    /\ PASSWORD \in {"", "password"}
    /\ now = 0
    /\ cachedToken = Null
    /\ tokenExpires = 0
    /\ calls = [p \in Procs |-> IdleCall]

\* the routes whose handler calls treolan
TreolanRoutes == {"/api/catalog", "/api/product"}

\* the invocation was a treolan call that returned a body and saw no 401
SucceededPlainly(c) ==
    c.pc = "done" /\ c.op \in TreolanRoutes /\ c.http = 200 /\ c.n401 = 0

\* time passes
Tick ==
    /\ now + TickStep <= MaxTime
    /\ now' = now + TickStep
    /\ UNCHANGED <<variant, LOGIN, PASSWORD, cachedToken, tokenExpires, calls>>

\* mutant: getToken wipes a token that it finds expired
RequestClearsExpired(p, route) ==
    /\ calls[p].pc \in {"idle", "done"}
    /\ calls' = [calls EXCEPT ![p] =
                    getToken([IdleCall EXCEPT !.op = route, !.prevOk = SucceededPlainly(calls[p])],
                             cachedToken, tokenExpires, now)]
    /\ cachedToken' = IF now >= tokenExpires THEN Null ELSE cachedToken
    /\ tokenExpires' = IF now >= tokenExpires THEN 0 ELSE tokenExpires
    /\ UNCHANGED <<variant, LOGIN, PASSWORD, now>>

\* a request for a route arrives and its handler runs to its first await:
\* auth-check calls getToken, catalog and product call treolan, which calls
\* getToken first
Request(p, route) ==
    /\ calls[p].pc \in {"idle", "done"}
    /\ calls' = [calls EXCEPT ![p] =
                    getToken([IdleCall EXCEPT !.op = route, !.prevOk = SucceededPlainly(calls[p])],
                             cachedToken, tokenExpires, now)]
    /\ UNCHANGED <<variant, LOGIN, PASSWORD, now, cachedToken, tokenExpires>>

\* mutant: a login that fails forgets the token that was stored
LoginAnswerClearsOnFailure(p, r) ==
    /\ calls[p].pc = "awaitLogin"
    /\ LET res == getTokenResume(calls[p], r, now)
           failed == res.call.pc = "done" /\ res.call.error.kind # "none"
       IN  /\ calls' = [calls EXCEPT ![p] = res.call]
           /\ cachedToken' = IF res.wrote THEN res.token
                              ELSE IF failed THEN Null ELSE cachedToken
           /\ tokenExpires' = IF res.wrote THEN now + TTL
                               ELSE IF failed THEN 0 ELSE tokenExpires
    /\ UNCHANGED <<variant, LOGIN, PASSWORD, now>>

\* the login request of p is answered
LoginAnswer(p, r) ==
    /\ calls[p].pc = "awaitLogin"
    /\ LET res == getTokenResume(calls[p], r, now)
       IN  /\ calls' = [calls EXCEPT ![p] = res.call]
           /\ cachedToken' = IF res.wrote THEN res.token ELSE cachedToken
           /\ tokenExpires' = IF res.wrote THEN now + TTL ELSE tokenExpires
    /\ UNCHANGED <<variant, LOGIN, PASSWORD, now>>

\* mutant: an upstream answer other than 401 renews the expiry of the token
ApiAnswerRenewsExpiry(p, r) ==
    /\ calls[p].pc = "awaitApi"
    /\ LET res == treolanResume(calls[p], r, now)
       IN  /\ calls' = [calls EXCEPT ![p] = res.call]
           /\ cachedToken' = IF res.cleared THEN Null ELSE cachedToken
           /\ tokenExpires' = IF res.cleared THEN 0
                               ELSE IF r.exc THEN tokenExpires ELSE now + TTL
    /\ UNCHANGED <<variant, LOGIN, PASSWORD, now>>

\* mutant: the 401 handling resets cachedToken and forgets tokenExpires
ApiAnswerHalfClear(p, r) ==
    /\ calls[p].pc = "awaitApi"
    /\ LET res == treolanResume(calls[p], r, now)
       IN  /\ calls' = [calls EXCEPT ![p] = res.call]
           /\ cachedToken' = IF res.cleared THEN Null ELSE cachedToken
    /\ UNCHANGED <<variant, LOGIN, PASSWORD, now, tokenExpires>>

\* the upstream request of p is answered
ApiAnswer(p, r) ==
    /\ calls[p].pc = "awaitApi"
    /\ LET res == treolanResume(calls[p], r, now)
       IN  /\ calls' = [calls EXCEPT ![p] = res.call]
           /\ cachedToken' = IF res.cleared THEN Null ELSE cachedToken
           /\ tokenExpires' = IF res.cleared THEN 0 ELSE tokenExpires
    /\ UNCHANGED <<variant, LOGIN, PASSWORD, now>>

\* the request that the sequential specification serves
First == CHOOSE p \in Procs : \A q \in Procs : p <= q

\* one request at a time, every answer the upstream can give
Next ==
    \/ Tick
    \/ \E route \in Routes : Request(First, route)
    \/ \E r \in LoginResponses : LoginAnswer(First, r)
    \/ \E r \in ApiResponses : ApiAnswer(First, r)

Spec == Init /\ [][Next]_vars

\* The upstream of the termination check: every login succeeds with the same
\* token, every upstream request is answered 200 or 401.
LiveLoginResponses ==
    {Response(200, ObjectBody([NoFields EXCEPT !["token"] = Str(Rep("b", 11))]))}

LiveApiResponses == {Response(st, ObjectBody(NoFields)) : st \in {200, 401}}

LiveNext ==
    \/ Tick
    \/ \E route \in Routes : Request(First, route)
    \/ \E r \in LiveLoginResponses : LoginAnswer(First, r)
    \/ \E r \in LiveApiResponses : ApiAnswer(First, r)

\* each request that was sent is answered
FairSpec ==
    /\ Init
    /\ [][LiveNext]_vars
    /\ WF_vars(\E r \in LiveLoginResponses : LoginAnswer(First, r))
    /\ WF_vars(\E r \in LiveApiResponses : ApiAnswer(First, r))

\* The upstream of the concurrency checks: a login answers one of two tokens
\* that every revision accepts, or refuses; an upstream request is answered
\* 200 or 401.
ConcLoginResponses ==
    { Response(200, ObjectBody([NoFields EXCEPT !["token"] = Str(Rep("b", 11))])),
      Response(200, ObjectBody([NoFields EXCEPT !["result"] = Str(Rep("e", 12))])),
      Response(403, TextBody(<<"n", "o">>)) }

ConcApiResponses == {Response(st, ObjectBody(NoFields)) : st \in {200, 401}}

\* the requests of the concurrency checks: one route that calls getToken
\* alone, one that calls treolan
ConcRoutes == {"/api/auth-check", "/api/catalog"}

\* The concurrency checks run with the credentials configured and the clock
\* standing at the instant a token stored at time 0 expires; the cache is empty,
\* or holds that expired token, or holds a token stored one tick ago.
ConcInit ==
    /\ variant \in Variants
    /\ LOGIN = "login"
    /\ PASSWORD = "password"
    /\ now = TTL
    /\ \/ cachedToken = Null /\ tokenExpires = 0
       \/ cachedToken = Str(Rep("b", 11)) /\ tokenExpires = TTL
       \/ cachedToken = Str(Rep("b", 11)) /\ tokenExpires = now - TickStep + TTL
    /\ calls = [p \in Procs |-> IdleCall]

\* the handlers of all requests interleave at their awaits
ConcNext ==
    \/ Tick
    \/ \E p \in Procs, route \in ConcRoutes : Request(p, route)
    \/ \E p \in Procs, r \in ConcLoginResponses : LoginAnswer(p, r)
    \/ \E p \in Procs, r \in ConcApiResponses : ApiAnswer(p, r)

ConcSpec == ConcInit /\ [][ConcNext]_vars

(***************************************************************************)
(* Steps, as seen from the state before and after.                         *)
(***************************************************************************)
\* a handler starts for p and runs getToken from its entry
EntryStep(p) == calls[p].pc \in {"idle", "done"} /\ calls'[p] # calls[p]

\* getToken of p handles the answer to a login request
LoginAnswered(p) == calls[p].pc = "awaitLogin" /\ calls'[p] # calls[p]

\* treolan of p handles the answer to an upstream request
ApiAnswered(p) == calls[p].pc = "awaitApi" /\ calls'[p] # calls[p]

\* getToken of p has returned a token in this step
Returned(p) ==
    \/ calls'[p].pc = "awaitApi"
    \/ calls'[p].pc = "done" /\ calls'[p].op = "/api/auth-check" /\ calls'[p].http = 200

(***************************************************************************)
(* The properties.                                                         *)
(***************************************************************************)

\* C1: a call of treolan sends at most two upstream requests whatever the
\* upstream answers, and a call whose retry is answered 401 as well has failed
\* with an error that names status 401.
C1_AtMostOneRetry ==
    \A p \in Procs :
        /\ calls[p].nApi <= 2
        /\ calls[p].n401 >= 2 => calls[p].pc = "done" /\ calls[p].error.status = 401

\* C2: when every request is answered, every call of treolan or getToken that
\* waits for an answer completes: the handler ends with a body or an error.
C2_EveryCallCompletes ==
    \A p \in Procs : (calls[p].pc \in {"awaitLogin", "awaitApi"}) ~> (calls[p].pc = "done")

\* C3: getToken entered while cachedToken is non-null and the clock is strictly
\* before tokenExpires returns the cached value, sends no login request and
\* leaves cachedToken and tokenExpires as they were.
C3_CacheHitReturnsCached ==
    [][\A p \in Procs :
          (EntryStep(p) /\ cachedToken # Null /\ now < tokenExpires)
              => /\ Returned(p)
                 /\ calls'[p].token = cachedToken
                 /\ calls'[p].src = "cache"
                 /\ calls'[p].nAuth = 0
                 /\ cachedToken' = cachedToken
                 /\ tokenExpires' = tokenExpires]_vars

C3_Witness ==
    \E p \in Procs :
        /\ calls[p].pc = "awaitApi" /\ calls[p].src = "cache" /\ calls[p].nAuth = 0
        /\ calls[p].token = cachedToken
        /\ now < tokenExpires /\ now + TickStep >= tokenExpires

\* C4: with credentials configured, getToken entered while the token is absent
\* or the clock is at or after tokenExpires does not return the stored value
\* but sends a login request; what a getToken that logged in returns is the
\* token it stored from the answer to its own login request.
C4_MissLogsIn ==
    [][\A p \in Procs :
          /\ (EntryStep(p) /\ ~CredentialsMissing
                /\ (cachedToken = Null \/ now >= tokenExpires))
                => /\ calls'[p].pc = "awaitLogin"
                   /\ calls'[p].nAuth = 1
                   /\ calls'[p].token = Undefined
                   /\ calls'[p].src = "none"
          /\ (LoginAnswered(p) /\ Returned(p))
                => /\ calls'[p].src = "login"
                   /\ calls'[p].token = cachedToken'
                   /\ AcceptToken(variant, calls'[p].token)
                   /\ ReadToken(variant, calls'[p].res.body).token = calls'[p].token]_vars

C4_Witness ==
    \E p \in Procs :
        /\ calls[p].pc = "awaitLogin" /\ calls[p].nAuth = 1 /\ calls[p].n401 = 0
        /\ cachedToken # Null
        /\ now = tokenExpires

\* C5: a treolan call that starts after a treolan call which succeeded without
\* a 401, while the clock is before tokenExpires, sends the bearer token the
\* first call sent and sends no login request.
C5_SecondCallReusesToken ==
    [][\A p \in Procs :
          (EntryStep(p) /\ SucceededPlainly(calls[p]) /\ calls'[p].op \in TreolanRoutes
             /\ now < tokenExpires)
              => /\ calls'[p].pc = "awaitApi"
                 /\ calls'[p].token = calls[p].token
                 /\ calls'[p].nAuth = 0
                 /\ calls'[p].nApi = 1]_vars

C5_Witness ==
    \E p \in Procs :
        /\ calls[p].prevOk /\ SucceededPlainly(calls[p])
        /\ calls[p].src = "cache" /\ calls[p].nAuth = 0 /\ calls[p].nApi = 1

\* C6: when the first upstream answer of a treolan call has a non-success
\* status other than 401, the call fails in that step with an error that
\* carries the status and the body of the answer; no further upstream request
\* and no login request is sent.
C6_OtherStatusFailsAtOnce ==
    [][\A p \in Procs :
          (ApiAnswered(p) /\ calls[p].n401 = 0 /\ ~calls'[p].res.exc
             /\ calls'[p].res.status # 401 /\ ~Ok(calls'[p].res.status))
              => /\ calls'[p].pc = "done"
                 /\ calls'[p].error.kind = "upstream"
                 /\ calls'[p].error.status = calls'[p].res.status
                 /\ calls'[p].error.body = calls'[p].res.body
                 /\ calls'[p].res.body # NoBody
                 /\ calls'[p].http = CatchStatus(calls[p].op)
                 /\ calls'[p].nApi = 1
                 /\ calls'[p].nAuth = calls[p].nAuth]_vars

C6_Witness ==
    \E p \in Procs :
        /\ calls[p].pc = "done" /\ calls[p].nApi = 1 /\ calls[p].n401 = 0
        /\ calls[p].res.status = 500
        /\ calls[p].error.kind = "upstream" /\ calls[p].error.status = 500

\* C7: while LOGIN or PASSWORD is empty no login request is ever sent, and every
\* getToken call ends with the configuration error.
C7_NoLoginWithoutCredentials ==
    CredentialsMissing =>
        \A p \in Procs :
            /\ calls[p].nAuth = 0
            /\ calls[p].pc # "idle" => calls[p].pc = "done" /\ calls[p].error.kind = "config"

\* C8: getToken that receives status 200 with the body {"access_token": <10
\* characters>} returns that string, stores it in cachedToken and sets
\* tokenExpires to the clock plus 55 minutes.
C8_TenCharacterTokenAccepted ==
    [][\A p \in Procs :
          (LoginAnswered(p)
             /\ calls'[p].res =
                  Response(200, ObjectBody([NoFields EXCEPT
                                               !["access_token"] = Str(Rep("a", 10))])))
              => /\ Returned(p)
                 /\ calls'[p].token = Str(Rep("a", 10))
                 /\ cachedToken' = Str(Rep("a", 10))
                 /\ tokenExpires' = now + TTL]_vars

\* C9: getToken that receives status 200 with a body that is a JSON string
\* literal of 14 characters returns the string without its quotes and stores
\* it in cachedToken.
C9_QuotedStringAccepted ==
    [][\A p \in Procs :
          (LoginAnswered(p)
             /\ calls'[p].res = Response(200, TextBody(<<"\"">> \o Rep("c", 14) \o <<"\"">>)))
              => /\ Returned(p)
                 /\ calls'[p].token = Str(Rep("c", 14))
                 /\ cachedToken' = Str(Rep("c", 14))]_vars

\* the token expression of the revision yields a string of fewer than 10
\* characters from the body
ShortTokenFound(body) ==
    LET read == ReadToken(variant, body)
    IN  read.how = "token" /\ Truthy(read.token) /\ LengthBelow10(read.token)

\* C10: getToken that receives a success status with a token shorter than the
\* minimum length does not return it and does not write cachedToken: it throws,
\* or (where there are several candidate paths) goes on to the next candidate.
\* The claim asks for the throw in every case, so a step that violates this
\* violates the claim.
C10_ShortTokenRejected ==
    [][\A p \in Procs :
          (LoginAnswered(p) /\ Ok(calls'[p].res.status)
             /\ ShortTokenFound(calls'[p].res.body))
              => /\ ~Returned(p)
                 /\ cachedToken' = cachedToken
                 /\ tokenExpires' = tokenExpires]_vars

\* the revision tries several candidate login paths
MultiPath == Len(AuthUrls(variant)) > 1

\* the answer r to a login request carries a token that the revision accepts
Accepted(r) ==
    /\ ~r.exc
    /\ Ok(r.status)
    /\ ReadToken(variant, r.body).how = "token"
    /\ AcceptToken(variant, ReadToken(variant, r.body).token)

\* C11: in the multi-path revisions getToken starts with the first candidate
\* path; an answer with an accepted token ends the loop with no further login
\* request; any other answer (non-success status, unparsable body, no accepted
\* token, exception of fetch) moves to the next candidate in list order, and
\* only after the last candidate does getToken throw.
C11_CandidatesInOrder ==
    [][\A p \in Procs :
          MultiPath =>
            /\ ((EntryStep(p) \/ ApiAnswered(p)) /\ calls'[p].pc = "awaitLogin")
                  => calls'[p].pathIdx = 1
            /\ LoginAnswered(p)
                  => IF Accepted(calls'[p].res)
                     THEN /\ Returned(p)
                          /\ calls'[p].pathIdx = calls[p].pathIdx
                          /\ calls'[p].nAuth = calls[p].nAuth
                     ELSE IF calls[p].pathIdx < Len(AuthUrls(variant))
                     THEN /\ calls'[p].pc = "awaitLogin"
                          /\ calls'[p].pathIdx = calls[p].pathIdx + 1
                     ELSE /\ calls'[p].pc = "done"
                          /\ calls'[p].error.kind = "login"]_vars

C11_Witness ==
    \E p \in Procs :
        /\ variant = "index"
        /\ calls[p].src = "login" /\ calls[p].pc = "awaitApi"
        /\ calls[p].pathIdx = 3
        /\ calls[p].lastError.message = "fetch failed"
        /\ calls[p].lastError.path = "/Auth/Login"

\* C12: in index.js, when every candidate path has failed, the error thrown by
\* getToken reports the failure of the last candidate of the list: its path,
\* and its status or the message of its exception.
C12_LastFailureReported ==
    \A p \in Procs :
        (variant = "index" /\ calls[p].pc = "done" /\ calls[p].error.kind = "login")
            => /\ calls[p].error.last.path = AuthUrls(variant)[Len(AuthUrls(variant))]
               /\ \/ calls[p].error.last.message # ""
                  \/ calls[p].error.last.status = calls[p].res.status

\* C13: in the revisions that examine token, accessToken, access_token,
\* bearerToken, jwt, result and the bare string, a login answer whose token
\* field is too short and whose result field is a valid token is accepted with
\* the value of result.
C13_ShortFieldDoesNotShadow ==
    [][\A p \in Procs :
          (LoginAnswered(p) /\ variant \in {"index", "part_001"}
             /\ calls'[p].res =
                  Response(200, ObjectBody([NoFields EXCEPT
                                               !["token"] = Str(Rep("a", 2)),
                                               !["result"] = Str(Rep("b", 11))])))
              => /\ Returned(p)
                 /\ calls'[p].token = Str(Rep("b", 11))
                 /\ cachedToken' = Str(Rep("b", 11))]_vars

\* C14: when getToken has failed on an answer to a login request (non-success
\* status, or success status without an accepted token), the error it threw
\* carries the status of that answer and its body.
C14_AuthErrorCarriesStatusAndBody ==
    \A p \in Procs :
        (calls[p].pc = "done" /\ calls[p].error.kind \in {"auth", "notoken", "login"}
           /\ ~calls[p].res.exc)
            => /\ \/ calls[p].error.status = calls[p].res.status
                  \/ calls[p].error.last.status = calls[p].res.status
               /\ calls[p].error.body = calls[p].res.body

\* C20: getToken that receives status 200 with a body of plain text that is not
\* JSON returns the trimmed text and stores it in cachedToken.
C20_PlainTextAccepted ==
    [][\A p \in Procs :
          (LoginAnswered(p)
             /\ calls'[p].res = Response(200, TextBody(<<" ">> \o Rep("d", 12) \o <<" ">>)))
              => /\ Returned(p)
                 /\ calls'[p].token = Str(Rep("d", 12))
                 /\ cachedToken' = Str(Rep("d", 12))]_vars

\* the step writes cachedToken or tokenExpires
CacheChanged == cachedToken' # cachedToken \/ tokenExpires' # tokenExpires

\* C15: in index.js, under every interleaving of getToken and treolan calls,
\* the cache is either (null, 0) or a string that passed the length test
\* together with an expiry, and a step that stores a token sets the expiry to
\* the clock of that step plus 55 minutes.
C15_CachePairsConsistent ==
    /\ [](variant = "index" =>
            \/ cachedToken = Null /\ tokenExpires = 0
            \/ /\ cachedToken.t = "string"
               /\ AcceptToken(variant, cachedToken)
               /\ tokenExpires >= TTL
               /\ tokenExpires <= now + TTL)
    /\ [][(variant = "index" /\ CacheChanged /\ cachedToken' # Null)
             => tokenExpires' = now + TTL]_vars

C15_Witness ==
    \E p, q \in Procs :
        /\ variant = "index"
        /\ calls[p].pc = "awaitLogin" /\ calls[p].n401 = 1
        /\ calls[q].pc = "awaitApi" /\ calls[q].src = "login"
        /\ cachedToken = calls[q].token
        /\ tokenExpires = now + TTL

\* C16: every step that changes cachedToken or tokenExpires is either a
\* getToken that stores the token accepted from the answer to its login
\* request, or a treolan that resets the cache on a 401 answer.
C16_OnlyTwoWriters ==
    [][CacheChanged =>
          \E p \in Procs :
              \/ /\ LoginAnswered(p) /\ Returned(p)
                 /\ Accepted(calls'[p].res)
                 /\ calls'[p].src = "login"
                 /\ cachedToken' = calls'[p].token
                 /\ tokenExpires' = now + TTL
              \/ /\ ApiAnswered(p)
                 /\ calls'[p].res.status = 401
                 /\ cachedToken' = Null
                 /\ tokenExpires' = 0]_vars

C16_Witness ==
    \E p \in Procs :
        /\ calls[p].n401 = 1 /\ calls[p].nApi = 2
        /\ calls[p].src = "login" /\ calls[p].pc = "awaitApi"
        /\ cachedToken = calls[p].token
        /\ tokenExpires = now + TTL

\* C17: a call that finds no valid token sends its own login request even
\* while another call is waiting for the answer to one; a call whose login is
\* accepted sends its upstream request with the token of its own answer; and
\* every accepted login stores its token, so that the cache holds the token of
\* the login answer handled last.
C17_EachLogsInLastWriteWins ==
    [][\A p \in Procs :
          /\ (EntryStep(p) /\ ~CacheHit(cachedToken, tokenExpires, now))
                => /\ calls'[p].pc = "awaitLogin"
                   /\ calls'[p].nAuth = 1
                   /\ calls'[p].nApi = 0
          /\ (LoginAnswered(p) /\ Accepted(calls'[p].res))
                => /\ calls'[p].token = ReadToken(variant, calls'[p].res.body).token
                   /\ (calls'[p].op \in TreolanRoutes
                         => /\ calls'[p].pc = "awaitApi"
                            /\ calls'[p].nApi = Bump(calls[p].nApi))
                   /\ cachedToken' = calls'[p].token
                   /\ tokenExpires' = now + TTL]_vars

C17_Witness ==
    \E p, q \in Procs :
        /\ calls[p].pc = "awaitApi" /\ calls[q].pc = "awaitApi"
        /\ calls[p].src = "login" /\ calls[q].src = "login"
        /\ calls[p].nAuth = 1 /\ calls[q].nAuth = 1
        /\ calls[p].n401 = 0 /\ calls[q].n401 = 0
        /\ calls[p].token # calls[q].token
        /\ cachedToken = calls[q].token

\* C18: a treolan call sends an upstream request only in the step in which its
\* getToken returns a token, and with that token (the cached one on a hit, the
\* one read from the login answer otherwise); when its getToken throws, the
\* handler answers with the error and the call has sent no upstream request in
\* that step.
C18_RequestOnlyWithOwnToken ==
    [][\A p \in Procs :
          /\ (calls'[p].nApi # calls[p].nApi /\ calls'[p].nApi # 0)
                => /\ calls'[p].pc = "awaitApi"
                   /\ Truthy(calls'[p].token)
                   /\ \/ /\ EntryStep(p)
                         /\ calls'[p].src = "cache"
                         /\ CacheHit(cachedToken, tokenExpires, now)
                         /\ calls'[p].token = cachedToken
                      \/ /\ LoginAnswered(p)
                         /\ calls'[p].src = "login"
                         /\ Accepted(calls'[p].res)
                         /\ calls'[p].token =
                                ReadToken(variant, calls'[p].res.body).token
          /\ (/\ calls'[p].op \in TreolanRoutes
              /\ calls'[p].pc = "done"
              /\ calls'[p].error.kind \in {"config", "auth", "notoken", "login"}
              /\ calls'[p] # calls[p])
                => /\ calls'[p].http = CatchStatus(calls'[p].op)
                   /\ calls'[p].nApi = IF EntryStep(p) THEN 0 ELSE calls[p].nApi]_vars

C18_Witness ==
    \E p \in Procs :
        /\ calls[p].op \in TreolanRoutes
        /\ calls[p].pc = "done"
        /\ calls[p].error.kind \in {"auth", "login"}
        /\ calls[p].nApi = 0
        /\ calls[p].nAuth >= 1
        /\ calls[p].http = CatchStatus(calls[p].op)

\* C19: a 401 answer makes treolan reset the cache whatever it holds, also a
\* token that another call stored after this call sent its request, and log in
\* again.
C19_UnconditionalInvalidation ==
    [][\A p \in Procs :
          (ApiAnswered(p) /\ ~calls'[p].res.exc /\ calls'[p].res.status = 401)
             => /\ cachedToken' = Null
                /\ tokenExpires' = 0
                /\ calls'[p].n401 = Bump(calls[p].n401)
                /\ (~(ChecksCredentials(variant) /\ CredentialsMissing)
                      => /\ calls'[p].pc = "awaitLogin"
                         /\ calls'[p].nAuth = Bump(calls[p].nAuth))]_vars

C19_Witness ==
    \E p, q \in Procs :
        /\ calls[p].pc = "awaitLogin" /\ calls[p].n401 = 1
        /\ calls[q].pc = "awaitApi" /\ calls[q].src = "login" /\ calls[q].n401 = 0
        /\ Truthy(calls[q].token)
        /\ calls[q].token # calls[p].token
        /\ cachedToken = Null
        /\ tokenExpires = 0

\* C21: a treolan call whose getToken was a cache hit and that receives no
\* 401 (it ends with a parsed body, with the error of another status or with
\* a body that is not JSON) writes neither cachedToken nor tokenExpires in any
\* of its steps.
C21_HitWithout401KeepsCache ==
    [][\A p \in Procs :
          /\ (EntryStep(p) /\ calls'[p].op \in TreolanRoutes
                           /\ calls'[p].src = "cache")
                => ~CacheChanged
          /\ (/\ ApiAnswered(p)
              /\ calls[p].src = "cache" /\ calls[p].n401 = 0
              /\ ~calls'[p].res.exc /\ calls'[p].res.status # 401)
                => /\ ~CacheChanged
                   /\ calls'[p].pc = "done"
                   /\ calls'[p].nAuth = 0
                   /\ cachedToken' = calls'[p].token]_vars

C21_Witness ==
    \E p \in Procs :
        /\ calls[p].op \in TreolanRoutes
        /\ calls[p].pc = "done"
        /\ calls[p].src = "cache" /\ calls[p].n401 = 0
        /\ calls[p].error.kind = "decode"
        /\ cachedToken = calls[p].token
        /\ now < tokenExpires

\* the invocation c ended because its getToken threw after a login request
LoginFailed(c) ==
    /\ c.pc = "done"
    /\ c.error.kind \in {"auth", "notoken", "login"}

\* C22: a step in which getToken fails leaves cachedToken and tokenExpires as
\* they were, and the getToken of the request served after a failed login
\* sends a login request again.
C22_FailedLoginNotCached ==
    [][\A p \in Procs :
          /\ ((EntryStep(p) \/ LoginAnswered(p)) /\ calls'[p].pc = "done"
                   /\ calls'[p].error.kind # "none")
                => ~CacheChanged
          /\ (LoginAnswered(p) /\ ~Accepted(calls'[p].res))
                => ~CacheChanged
          /\ (ApiAnswered(p) /\ calls'[p].pc = "done" /\ calls'[p].n401 # calls[p].n401)
                => cachedToken' = Null /\ tokenExpires' = 0
          /\ (EntryStep(p) /\ LoginFailed(calls[p]))
                => /\ calls'[p].pc = "awaitLogin"
                   /\ calls'[p].nAuth = 1
                   /\ calls'[p].error = NoError]_vars

C22_Witness ==
    \E p \in Procs :
        /\ LoginFailed(calls[p])
        /\ calls[p].nAuth >= 1
        /\ cachedToken # Null
        /\ now >= tokenExpires
        /\ tokenExpires > 0

\* C23: an exception of getToken or treolan ends the request in the step that
\* raises it, with the one answer of the handler's catch block; the step
\* touches nothing but that request's locals and the token cache, an answered
\* request changes no more, and the request served next starts as a fresh
\* invocation that depends on the cache and the clock only.
C23_FailureStaysInRequest ==
    /\ [](\A p \in Procs :
            /\ calls[p].error.kind # "none"
                  => calls[p].pc = "done" /\ calls[p].http = CatchStatus(calls[p].op)
            /\ calls[p].pc = "done" <=> calls[p].http # 0
            /\ (calls[p].pc = "done" /\ calls[p].error.kind = "none")
                  => calls[p].http = 200)
    /\ [][\A p \in Procs :
             /\ (calls'[p] # calls[p] /\ calls'[p].error.kind # "none")
                   => /\ \A q \in Procs \ {p} : calls'[q] = calls[q]
                      /\ UNCHANGED <<variant, LOGIN, PASSWORD, now>>
                      /\ CacheChanged => cachedToken' = Null /\ tokenExpires' = 0
             /\ (calls[p].error.kind # "none" /\ calls'[p] # calls[p])
                   => \E route \in Routes :
                         calls'[p] = getToken([IdleCall EXCEPT !.op = route],
                                              cachedToken, tokenExpires, now)]_vars

C23_Witness ==
    \E p \in Procs :
        /\ calls[p].op = "/api/product"
        /\ calls[p].pc = "done"
        /\ calls[p].error.kind = "upstream"
        /\ calls[p].http = 404
        /\ calls[p].src = "login"
        /\ cachedToken = calls[p].token

\* C24: a handler whose call failed in getToken (credentials missing or login
\* failed) has answered 401, and one whose call failed with an upstream status
\* or an unparsable body has answered 500 or 404.
C24_StatusByErrorKind ==
    \A p \in Procs :
        (calls[p].pc = "done" /\ calls[p].error.kind # "none")
           => /\ calls[p].error.kind \in {"config", "auth", "notoken", "login"}
                    => calls[p].http = 401
              /\ calls[p].error.kind \in {"upstream", "decode"}
                    => calls[p].http \in {500, 404}

====
